---- MODULE Spec2Model ----
(***************************************************************************)
(* conv.py: the rewrite of old-schema node fragments in .ron files          *)
(* (transform_ron_file) and the directory batch around it                   *)
(* (process_directory, __main__).                                           *)
(*                                                                          *)
(* A text is a sequence of one-character strings.  A file name is a text    *)
(* too, so that endswith('.ron') is computed on its characters.  A file     *)
(* holds bytes: a byte below 0x80 is written as the character it encodes,   *)
(* a byte from 0x80 on as the string of its hexadecimal value.  The         *)
(* characters from U+0080 on are those of Utf8Table.                        *)
(***************************************************************************)
EXTENDS Naturals, Sequences, FiniteSets, TLC

VARIABLES
    fs,           \* the file system: [tree, data]
    fs0,          \* the file system as it was before the run
    listing,      \* the list os.listdir returned
    idx,          \* position of the for loop in listing
    pc,           \* the statement the program is at
    content,      \* transform_ron_file: content
    transformed,  \* transform_ron_file: transformed_content
    console,      \* the characters sent to standard output so far
    error         \* the exception that ended the program, "none" if none

vars == <<fs, fs0, listing, idx, pc, content, transformed, console, error>>

(***************************************************************************)
(* Bounds of the model.                                                     *)
(***************************************************************************)
\* fragment slots of an input text
MaxFrags == 2
\* entries of the input directory
MaxFiles == 3

(***************************************************************************)
(* The pattern, conv.py line 9:                                             *)
(*   \(\s*name:\s*"([^"]+)",\s*ty:\s*"([^"]+)",\s*inner:\s*(\([^)]+\))     *)
(* Positions are 1-based; 0 is "no match".                                  *)
(***************************************************************************)
\* whitespace characters beyond space, \t, \n, \r and \f: U+000B (line
\* tabulation), U+001C to U+001F (the information separators), U+0085 (next
\* line), U+00A0 (no-break space) and U+1680 (ogham space mark)
VT == ""
FS == ""
GS == ""
RS == ""
US == ""
NEL == ""
NBSP == " "
OGHAM == " "

\* \s of a str pattern: the characters c for which c.isspace() holds.  Of
\* these, U+2000 to U+200A, U+2028, U+2029, U+202F, U+205F and U+3000 cannot
\* be written in a string of the model and stand in no text of it.
IsSpace(c) ==
    c \in {" ", "\t", "\n", "\r", "\f", VT, FS, GS, RS, US, NEL, NBSP, OGHAM}

\* F of the value of v.  (TLC may evaluate an operator's argument anew at
\* each place the operator uses it; x below is evaluated once.)
Once(v, F(_)) == CHOOSE r \in {F(x) : x \in {v}} : TRUE

\* the least element of a non-empty set of positions
Least(P) == Once(P, LAMBDA Q : CHOOSE j \in Q : \A k \in Q : j <= k)

\* \s* (greedy; what follows it in the pattern is never whitespace, so giving
\* characters back cannot help): the first position from i on that holds no
\* whitespace, Len(s) + 1 when the text ends first
SkipSpace(s, i) ==
    Once(i, LAMBDA p :
        IF p = 0 THEN 0
        ELSE Least({j \in p..(Len(s) + 1) : j = Len(s) + 1 \/ ~IsSpace(s[j])}))

\* a literal run of the pattern at position i: the position after it, or 0
Lit(s, i, w) ==
    Once(i, LAMBDA p :
        IF p = 0 \/ p + Len(w) - 1 > Len(s) THEN 0
        ELSE IF SubSeq(s, p, p + Len(w) - 1) = w THEN p + Len(w)
        ELSE 0)

\* the first position from i on that holds c, or 0
FindChar(s, i, c) ==
    Once(i, LAMBDA p :
        IF p = 0 THEN 0
        ELSE Once({j \in p..Len(s) : s[j] = c},
                  LAMBDA P : IF P = {} THEN 0 ELSE Least(P)))

\* [^c]+ followed by c: the position of that c, or 0 (none, or an empty run)
NotCharPlus(s, i, c) ==
    Once(i, LAMBDA p :
        Once(FindChar(s, p, c), LAMBDA j : IF j > p THEN j ELSE 0))

\* [^"]+" : the quote that ends a name or ty capture starting at i
QuoteClose(s, i) == NotCharPlus(s, i, "\"")

\* a mutant of InnerClose: the last ")" of the text, as a greedy .+ would take
InnerCloseGreedy(s, i) ==
    Once(i, LAMBDA p :
        IF p = 0 THEN 0
        ELSE Once({j \in (p + 1)..Len(s) : s[j] = ")"},
                  LAMBDA C : IF C = {} THEN 0
                             ELSE CHOOSE j \in C : \A k \in C : k <= j))

\* [^)]+\) : the ")" that ends the inner capture whose content starts at i
InnerClose(s, i) == NotCharPlus(s, i, ")")

NoMatch ==
    [ok |-> FALSE, start |-> 0, end |-> 0, name |-> <<>>, ty |-> <<>>,
     innerAt |-> 0, inner |-> <<>>]

\* re.match of the pattern at position i: the match object (its span is
\* start..end-1, its groups are name, ty and inner) or NoMatch
pattern(s, i) ==
    LET p1  == Lit(s, i, <<"(">>)
        p2  == Lit(s, SkipSpace(s, p1), <<"n", "a", "m", "e", ":">>)
        p3  == Lit(s, SkipSpace(s, p2), <<"\"">>)
        q3  == QuoteClose(s, p3)
        p4  == Lit(s, q3, <<"\"", ",">>)
        p5  == Lit(s, SkipSpace(s, p4), <<"t", "y", ":">>)
        p6  == Lit(s, SkipSpace(s, p5), <<"\"">>)
        q6  == QuoteClose(s, p6)
        p7  == Lit(s, q6, <<"\"", ",">>)
        p8  == Lit(s, SkipSpace(s, p7), <<"i", "n", "n", "e", "r", ":">>)
        p9  == SkipSpace(s, p8)
        p10 == Lit(s, p9, <<"(">>)
        q10 == InnerClose(s, p10)
    IN  IF q10 = 0 THEN NoMatch
        ELSE [ok |-> TRUE, start |-> i, end |-> q10 + 1,
              name |-> SubSeq(s, p3, q3 - 1), ty |-> SubSeq(s, p6, q6 - 1),
              innerAt |-> p9, inner |-> SubSeq(s, p9, q10)]

Indent12 == <<" ", " ", " ", " ", " ", " ", " ", " ", " ", " ", " ", " ">>
Indent16 == Indent12 \o <<" ", " ", " ", " ">>

\* a mutant of replace_node: name and ty change places
replace_node_swapped(match) ==
    <<"(", "\n">> \o Indent12 \o <<"n", "a", "m", "e", ":", " ", "\"">>
    \o match.ty \o <<"\"", ",", "\n">> \o Indent12
    \o <<"i", "n", "n", "e", "r", ":", " ", "{", "\n">> \o Indent16 \o <<"\"">>
    \o match.name \o <<"\"", ":", " ">> \o match.inner
    \o <<"\n">> \o Indent12 \o <<"}">>

\* replace_node, the f-string of line 15
replace_node(match) ==
    <<"(", "\n">> \o Indent12 \o <<"n", "a", "m", "e", ":", " ", "\"">>
    \o match.name \o <<"\"", ",", "\n">> \o Indent12
    \o <<"i", "n", "n", "e", "r", ":", " ", "{", "\n">> \o Indent16 \o <<"\"">>
    \o match.ty \o <<"\"", ":", " ">> \o match.inner
    \o <<"\n">> \o Indent12 \o <<"}">>

\* re.search of the pattern from position i on: the leftmost match that
\* starts at i or later, or NoMatch (a match starts with "(", so that the
\* pattern is tried only there)
search(s, i) ==
    Once({j \in i..Len(s) : s[j] = "(" /\ pattern(s, j).ok},
         LAMBDA P : IF P = {} THEN NoMatch ELSE pattern(s, Least(P)))

RECURSIVE SubFromDropping(_, _)
\* a mutant of SubFrom: the scan resumes one character after the match's end
SubFromDropping(s, i) ==
    Once(search(s, i), LAMBDA m :
        IF ~m.ok THEN SubSeq(s, i, Len(s))
        ELSE SubSeq(s, i, m.start - 1) \o replace_node(m)
             \o SubFromDropping(s, m.end + 1))

RECURSIVE SubFrom(_, _)
\* re.sub from position i on: the text up to the next match is copied, the
\* match is replaced by what replace_node returns, and the scan resumes at
\* the match's end (the pattern matches no empty string); the text after
\* the last match is copied
SubFrom(s, i) ==
    Once(search(s, i), LAMBDA m :
        IF ~m.ok THEN SubSeq(s, i, Len(s))
        ELSE SubSeq(s, i, m.start - 1) \o replace_node(m) \o SubFrom(s, m.end))

\* re.sub(pattern, replace_node, content), line 18
re_sub(s) == SubFrom(s, 1)

(***************************************************************************)
(* Input texts: up to MaxFrags fragments, each followed by a gap.           *)
(***************************************************************************)
\* the spec's example fragment
FragCanon ==
    <<"(", "n", "a", "m", "e", ":", " ", "\"", "A", "\"", ",", " ", "t", "y", ":", " ", "\"", "T", "\"", ",", " ", "i", "n", "n", "e", "r", ":", " ", "(", "x", ":", " ", "1", ")", ")">>
\* no optional whitespace at all
FragTight ==
    <<"(", "n", "a", "m", "e", ":", "\"", "B", "c", "\"", ",", "t", "y", ":", "\"", "U", "\"", ",", "i", "n", "n", "e", "r", ":", "(", "y", ")", ")">>
\* every \s* filled, with whitespace of every kind
FragSpaced ==
    <<"(", "\n", "\t", VT, "n", "a", "m", "e", ":", " ", NBSP, "\"", "A", "\"", ",", NEL, FS, "t", "y", ":", GS, "\"", "T", "\"", ",", "\r", "\n", RS, "i", "n", "n", "e", "r", ":", "\f", US, OGHAM, "(", "x", " ", "y", ")", "\n", ")">>
\* inner holds a nested parenthesis
FragNested ==
    <<"(", "n", "a", "m", "e", ":", " ", "\"", "A", "\"", ",", " ", "t", "y", ":", " ", "\"", "T", "\"", ",", " ", "i", "n", "n", "e", "r", ":", " ", "(", "a", ":", " ", "(", "b", ":", " ", "1", ")", ")", ")">>
\* unterminated quote after the name
FragNoQuote ==
    <<"(", "n", "a", "m", "e", ":", " ", "\"", "A", ",", " ", "t", "y", ":", " ", "\"", "T", "\"", ",", " ", "i", "n", "n", "e", "r", ":", " ", "(", "x", ":", " ", "1", ")", ")">>
\* different key order
FragSwapped ==
    <<"(", "t", "y", ":", " ", "\"", "T", "\"", ",", " ", "n", "a", "m", "e", ":", " ", "\"", "A", "\"", ",", " ", "i", "n", "n", "e", "r", ":", " ", "(", "x", ":", " ", "1", ")", ")">>
\* empty inner: [^)]+ needs one character
FragEmptyIn ==
    <<"(", "n", "a", "m", "e", ":", " ", "\"", "A", "\"", ",", " ", "t", "y", ":", " ", "\"", "T", "\"", ",", " ", "i", "n", "n", "e", "r", ":", " ", "(", ")", ")">>
\* inner never closed inside the fragment
FragOpen ==
    <<"(", "n", "a", "m", "e", ":", " ", "\"", "A", "\"", ",", " ", "t", "y", ":", " ", "\"", "T", "\"", ",", " ", "i", "n", "n", "e", "r", ":", " ", "(", "x", ":", " ", "1">>
\* what may follow a fragment
GapNone ==
    <<>>
GapText ==
    <<",", "\n", "(", "z", ":", " ", "\"", "q", "\"", ")">>

Frags ==
    {FragCanon, FragTight, FragSpaced, FragNested, FragNoQuote, FragSwapped,
     FragEmptyIn, FragOpen}

Gaps == {GapNone, GapText}

RECURSIVE TextsOf(_)
TextsOf(k) ==
    IF k = 0 THEN {<<>>}
    ELSE {f \o g \o t : f \in Frags, g \in Gaps, t \in TextsOf(k - 1)}

Texts == UNION {TextsOf(k) : k \in 0..MaxFrags}

\* a.ron: the example fragment with a no-break space in inner, closed,
\* with a CR LF line end
TextA ==
    <<"(", "n", "a", "m", "e", ":", " ", "\"", "A", "\"", ",", " ", "t", "y", ":", " ", "\"", "T", "\"", ",", " ", "i", "n", "n", "e", "r", ":", " ", "(", "x", ":", NBSP, "1", ")", ")", "\r", "\n">>
\* b.ron: no fragment, an ogham space mark and a lone CR
TextB ==
    <<"[", "(", "t", "y", ":", OGHAM, "\"", "T", "\"", ")", "\r", "]">>
\* e.ron: an empty file
TextE ==
    <<>>
\* a byte that stands in no UTF-8 encoding
InvalidByte == "0xFF"
\* e.ron: the bytes of a file that does not decode
TextBad ==
    <<"(", "n", "a", "m", "e", ":", " ", "\"", InvalidByte, "\"", ",", " ", "t", "y", ":", " ", "\"", "T", "\"", ",", " ", "i", "n", "n", "e", "r", ":", " ", "(", "x", ")", ")">>
\* what a file of the output directory held before the run
TextOld ==
    <<"(", "o", "l", "d", ")">>
DotRon == <<".", "r", "o", "n">>
TransformedPrefix == <<"T", "r", "a", "n", "s", "f", "o", "r", "m", "e", "d", " ">>
LineComplete == <<"T", "r", "a", "n", "s", "f", "o", "r", "m", "a", "t", "i", "o", "n", " ", "c", "o", "m", "p", "l", "e", "t", "e", ".">>

(***************************************************************************)
(* The file system is [tree, data].  tree maps a directory of Places to     *)
(* [exists, isdir, entries]: absent, a regular file (exists and is no       *)
(* directory) or a directory; entries maps a name to [kind, ino, target]:   *)
(* a regular file ("file") that is the file numbered ino, a subdirectory    *)
(* ("dir") or a symbolic link ("link") to the path target.  data maps the   *)
(* number of a file to the bytes it holds.  Two entries with one number     *)
(* are hard links to one file; two symbolic links with one target lead to   *)
(* one file.                                                                *)
(***************************************************************************)
\* __main__, lines 35 and 36
input_directory == "animation_graphs_old"
output_directory == "animation_graphs"

Dirs == {input_directory, output_directory}

\* a directory outside the two, where symbolic links may lead
elsewhere == "elsewhere"

Places == Dirs \cup {elsewhere}

NoDir == [exists |-> FALSE, isdir |-> FALSE, entries |-> <<>>]
EmptyDir == [exists |-> TRUE, isdir |-> TRUE, entries |-> <<>>]
\* the path names a regular file
NotADir == [exists |-> TRUE, isdir |-> FALSE, entries |-> <<>>]

\* os.path.join(dir, filename), lines 29 and 30
path_join(dir, filename) == [dir |-> dir, name |-> filename]

\* the target of an entry that is no symbolic link
NoPath == [dir |-> "", name |-> <<>>]

\* the entries of a directory
File(ino) == [kind |-> "file", ino |-> ino, target |-> NoPath]
SubDir == [kind |-> "dir", ino |-> 0, target |-> NoPath]
Link(path) == [kind |-> "link", ino |-> 0, target |-> path]

\* f holds an entry at path
Has(f, path) ==
    f.tree[path.dir].isdir /\ path.name \in DOMAIN f.tree[path.dir].entries

\* the number of symbolic links open follows before it gives up (Linux)
MaxSymlinks == 40

RECURSIVE Follow(_, _, _)
\* the path reached from path by following at most hops symbolic links
Follow(f, path, hops) ==
    IF hops > 0 /\ Has(f, path)
       /\ f.tree[path.dir].entries[path.name].kind = "link"
    THEN Follow(f, f.tree[path.dir].entries[path.name].target, hops - 1)
    ELSE path

\* the path open works on: open follows symbolic links to their target
Resolve(f, path) == Follow(f, path, MaxSymlinks)

\* the entry open reaches from path, which Resolve(f, path) holds
Opened(f, path) ==
    LET p == Resolve(f, path) IN f.tree[p.dir].entries[p.name]

\* the exception open(path, mode) raises for what the file system holds
\* at the path, "none" if the file system lets it open the file: the
\* directory of the file is missing or no directory, mode 'r' finds no
\* file (mode 'w' creates it), what the path leads to is a directory, or
\* the symbolic links do not end (OSError, too many levels of links)
OpenRaises(f, path, mode) ==
    LET p == Resolve(f, path)
        d == f.tree[p.dir]
    IN  IF ~d.exists THEN "FileNotFoundError"
        ELSE IF ~d.isdir THEN "NotADirectoryError"
        ELSE IF p.name \notin DOMAIN d.entries
            THEN IF mode = "r" THEN "FileNotFoundError" ELSE "none"
        ELSE IF d.entries[p.name].kind = "dir" THEN "IsADirectoryError"
        ELSE IF d.entries[p.name].kind = "link" THEN "OSError"
        ELSE "none"

\* the bytes of the file open reaches from path
BytesAt(f, path) == f.data[Opened(f, path).ino]

\* os.path.exists
path_exists(dir) == fs.tree[dir].exists

\* the path names a directory: os.listdir lists it
path_isdir(dir) == fs.tree[dir].exists /\ fs.tree[dir].isdir

\* str.endswith, line 28
endswith(name, suffix) ==
    /\ Len(name) >= Len(suffix)
    /\ SubSeq(name, Len(name) - Len(suffix) + 1, Len(name)) = suffix

\* a mutant of is_ron: the suffix anywhere in the name
is_ron_anywhere(filename) ==
    \E i \in 1..Len(filename) :
        i + Len(DotRon) - 1 <= Len(filename)
        /\ SubSeq(filename, i, i + Len(DotRon) - 1) = DotRon

\* filename.endswith('.ron'), line 28
is_ron(filename) == endswith(filename, DotRon)

\* the bytes from 0x80 on that the files of the model hold: two that
\* start the encoding of a character, four that continue one, and one that
\* stands in no encoding
LeadBytes == {"0xC2", "0xE1"}
ContBytes == {"0x80", "0x85", "0x9A", "0xA0"}
HighBytes == LeadBytes \cup ContBytes \cup {InvalidByte}

\* the UTF-8 encoding of the characters from U+0080 on that these bytes
\* encode; a character that is not named above is written by its code point
Utf8Table ==
    "U+0080" :> <<"0xC2", "0x80">>
    @@ NEL :> <<"0xC2", "0x85">>
    @@ "U+009A" :> <<"0xC2", "0x9A">>
    @@ NBSP :> <<"0xC2", "0xA0">>
    @@ "U+1000" :> <<"0xE1", "0x80", "0x80">>
    @@ "U+1005" :> <<"0xE1", "0x80", "0x85">>
    @@ "U+101A" :> <<"0xE1", "0x80", "0x9A">>
    @@ "U+1020" :> <<"0xE1", "0x80", "0xA0">>
    @@ "U+1140" :> <<"0xE1", "0x85", "0x80">>
    @@ "U+1145" :> <<"0xE1", "0x85", "0x85">>
    @@ "U+115A" :> <<"0xE1", "0x85", "0x9A">>
    @@ "U+1160" :> <<"0xE1", "0x85", "0xA0">>
    @@ OGHAM :> <<"0xE1", "0x9A", "0x80">>
    @@ "U+1685" :> <<"0xE1", "0x9A", "0x85">>
    @@ "U+169A" :> <<"0xE1", "0x9A", "0x9A">>
    @@ "U+16A0" :> <<"0xE1", "0x9A", "0xA0">>
    @@ "U+1800" :> <<"0xE1", "0xA0", "0x80">>
    @@ "U+1805" :> <<"0xE1", "0xA0", "0x85">>
    @@ "U+181A" :> <<"0xE1", "0xA0", "0x9A">>
    @@ "U+1820" :> <<"0xE1", "0xA0", "0xA0">>

\* the characters of the model that UTF-8 encodes in more than one byte
MultiByte == DOMAIN Utf8Table

\* the UTF-8 encoding of a character: a character below U+0080 is its own
\* byte
Utf8(c) == IF c \in MultiByte THEN Utf8Table[c] ELSE <<c>>

RECURSIVE EncodeFrom(_, _)
\* the encoding of the text from position i on
EncodeFrom(s, i) ==
    Once({j \in i..Len(s) : s[j] \in MultiByte}, LAMBDA P :
        IF P = {} THEN SubSeq(s, i, Len(s))
        ELSE Once(Least(P), LAMBDA j :
                 SubSeq(s, i, j - 1) \o Utf8(s[j]) \o EncodeFrom(s, j + 1)))

\* f.write(text) of a file opened with mode 'w': the bytes of the text in
\* UTF-8, the encoding of the locale ('\n' is written as it is on POSIX)
Encode(text) == EncodeFrom(text, 1)

\* the number of bytes of an encoding that starts with byte b
CharLen(b) == IF b = "0xC2" THEN 2 ELSE IF b = "0xE1" THEN 3 ELSE 1

\* position j of the bytes starts the encoding of a character: a byte below
\* 0x80, or a lead byte followed by as many continuation bytes as it asks
\* for
Starts(raw, j) ==
    \/ raw[j] \notin HighBytes
    \/ /\ raw[j] \in LeadBytes
       /\ j + CharLen(raw[j]) - 1 <= Len(raw)
       /\ \A k \in (j + 1)..(j + CharLen(raw[j]) - 1) : raw[k] \in ContBytes

\* position j of the bytes continues the encoding of a character
Continues(raw, j) ==
    /\ raw[j] \in ContBytes
    /\ \E k \in 1..2 :
          /\ j - k >= 1
          /\ raw[j - k] \in LeadBytes
          /\ k < CharLen(raw[j - k])
          /\ Starts(raw, j - k)

\* the character encoded from position j on
CharAt(raw, j) ==
    IF raw[j] \notin HighBytes THEN raw[j]
    ELSE CHOOSE c \in MultiByte :
             Utf8Table[c] = SubSeq(raw, j, j + CharLen(raw[j]) - 1)

\* f.read() of a file opened with mode 'r' decodes the bytes (as UTF-8, the
\* encoding of the locale): it succeeds when every byte belongs to the
\* encoding of a character
Decodable(raw) == \A j \in 1..Len(raw) : Starts(raw, j) \/ Continues(raw, j)

\* the characters the bytes encode
Decode(raw) ==
    Once(SelectSeq([j \in 1..Len(raw) |-> j], LAMBDA j : Starts(raw, j)),
         LAMBDA at : [k \in 1..Len(at) |-> CharAt(raw, at[k])])

\* universal newlines: every CR LF and every lone CR is read as LF
Newlines(s) ==
    LET CrLf(j) == s[j] = "\r" /\ j < Len(s) /\ s[j + 1] = "\n"
    IN  Once(SelectSeq([j \in 1..Len(s) |-> j], LAMBDA j : ~CrLf(j)),
             LAMBDA kept : [k \in 1..Len(kept) |->
                               IF s[kept[k]] = "\r" THEN "\n" ELSE s[kept[k]]])

\* f.read() of a file opened with mode 'r' (text mode): the bytes are
\* decoded and the line ends translated
ReadText(raw) == Once(Decode(raw), LAMBDA s : Newlines(s))

NameA == <<"a", ".", "r", "o", "n">>
NameB == <<"b", ".", "r", "o", "n">>
NameC == <<"c", ".", "t", "x", "t">>
NameD == <<"d", ".", "r", "o", "n", ".", "b", "a", "k">>
NameE == <<"e", ".", "r", "o", "n">>
\* files of the directory elsewhere
NameW == <<"w">>
NameX == <<"x">>
NameY == <<"y">>

\* every name of the model, in a fixed order
AllNames == <<NameA, NameB, NameC, NameD, NameE, NameW, NameX, NameY>>

\* the number the file system gives a file that open creates at path p: one
\* that no file has.  Which one it is makes no difference to the program;
\* the model takes one number per path (above those of the files that exist
\* before the run), so that the same files have the same numbers whatever
\* the order they are created in.
NewIno(p) ==
    (IF p.dir = input_directory THEN 20
     ELSE IF p.dir = output_directory THEN 30 ELSE 40)
    + (CHOOSE i \in 1..Len(AllNames) : AllNames[i] = p.name)

\* the file system after open(path, 'w') and the writing of these bytes: a
\* symbolic link is followed and stays a link; the file that the path leads
\* to holds the bytes, under every name it has; where there is none, a new
\* file is entered at the path
FileWritten(f, path, bytes) ==
    LET p == Resolve(f, path)
        e == f.tree[p.dir].entries
        i == IF p.name \in DOMAIN e THEN e[p.name].ino ELSE NewIno(p)
    IN  [tree |-> [f.tree EXCEPT ![p.dir].entries =
                      [n \in DOMAIN e \cup {p.name} |->
                          IF n = p.name THEN File(i) ELSE e[n]]],
         data |-> [j \in DOMAIN f.data \cup {i} |->
                      IF j = i THEN bytes ELSE f.data[j]]]

\* f"Transformed {filename}", line 32
LineTransformed(filename) == TransformedPrefix \o filename

\* what print(text) sends to standard output: the text and a newline
Printed(text) == text \o <<"\n">>

(***************************************************************************)
(* Directories the run may start from.                                      *)
(***************************************************************************)
\* the bytes of the files that exist before the run, by their numbers:
\* 1 a.ron, 2 b.ron, 3 c.txt, 4 e.ron, 5 an e.ron that does not decode,
\* 6 x, 7 y, 8 to 11 files holding what an earlier run left
Disk0 ==
    <<Encode(TextA), Encode(TextB), FragTight, TextE, TextBad,
      Encode(TextA), FragTight, TextOld, TextOld, TextOld, TextOld>>

\* the directory elsewhere: x, y and w
ElsewhereDir ==
    [exists |-> TRUE, isdir |-> TRUE,
     entries |-> [n \in {NameW, NameX, NameY} |->
                     IF n = NameX THEN File(6)
                     ELSE IF n = NameY THEN File(7) ELSE File(10)]]

NamePool == {NameA, NameB, NameC, NameD, NameE}

\* what an entry of the input directory may be, by its name: a symbolic
\* link and a subdirectory occur both under a .ron name and under another
\* name, and e.ron may hold bytes that do not decode
EntriesOf ==
    [name \in NamePool |->
        IF name = NameA THEN {File(1), Link(path_join(elsewhere, NameX))}
        ELSE IF name = NameB THEN {File(2), SubDir}
        ELSE IF name = NameC THEN {File(3), SubDir}
        ELSE IF name = NameD THEN {Link(path_join(elsewhere, NameY))}
        ELSE {File(4), File(5)}]

\* the entries of an input directory of files in which a.ron may be a
\* symbolic link, to x elsewhere or to e.ron of the output directory
LinkedEntriesOf ==
    [name \in {NameA, NameB, NameC, NameE} |->
        IF name = NameA
            THEN {File(1), Link(path_join(elsewhere, NameX)),
                  Link(path_join(output_directory, NameE))}
        ELSE IF name = NameB THEN {File(2)}
        ELSE IF name = NameC THEN {File(3)}
        ELSE {File(4)}]

\* the directories of at most MaxFiles entries, each one of those that v
\* has for its name
DirsOf(v) ==
    {[exists |-> TRUE, isdir |-> TRUE, entries |-> k] :
        k \in UNION {{f \in [S -> UNION {v[n] : n \in S}] :
                          \A n \in S : f[n] \in v[n]} :
                        S \in {T \in SUBSET DOMAIN v : Cardinality(T) <= MaxFiles}}}

InputStates == {NoDir, NotADir} \cup DirsOf(EntriesOf)

\* the output directory with files left by an earlier run, b.ron being a
\* symbolic link to w elsewhere, which nothing else leads to
StaleDir ==
    [exists |-> TRUE, isdir |-> TRUE,
     entries |-> [n \in {NameA, NameB, NameC, NameE} |->
                     IF n = NameA THEN File(8)
                     ELSE IF n = NameB THEN Link(path_join(elsewhere, NameW))
                     ELSE IF n = NameC THEN File(9)
                     ELSE File(11)]]

\* the output directory in which a.ron is a symbolic link to its e.ron and
\* b.ron a symbolic link to c.txt of the input directory
LinkDir ==
    [exists |-> TRUE, isdir |-> TRUE,
     entries |-> [n \in {NameA, NameB, NameE} |->
                     IF n = NameA THEN Link(path_join(output_directory, NameE))
                     ELSE IF n = NameB
                         THEN Link(path_join(input_directory, NameC))
                     ELSE File(11)]]

\* the output directory in which a.ron and e.ron are symbolic links to x
\* elsewhere (to which a.ron of the input directory may lead too), and
\* b.ron and c.txt are hard links to the file that c.txt of the input
\* directory is
SharedDir ==
    [exists |-> TRUE, isdir |-> TRUE,
     entries |-> [n \in {NameA, NameB, NameC, NameE} |->
                     IF n \in {NameA, NameE}
                         THEN Link(path_join(elsewhere, NameX))
                     ELSE File(3)]]

OutputStates == {NoDir, NotADir, StaleDir}

\* the pairs of an input and an output directory a run may start from:
\* every input directory with an output directory that is absent, no
\* directory or left by an earlier run, and the input directories of files
\* with the output directories that are empty, left by an earlier run, or
\* share files with the input or among their own entries
Scenarios ==
    (InputStates \X OutputStates)
    \cup (DirsOf(LinkedEntriesOf) \X {EmptyDir, StaleDir, LinkDir, SharedDir})

\* the numbers of the files of a tree
Files(tree) ==
    {e.ino : e \in {x \in UNION {{tree[d].entries[n] :
                                     n \in DOMAIN tree[d].entries} :
                                  d \in Places} : x.kind = "file"}}

\* the file system of a tree: each file holds its bytes of Disk0
Filled(tree) == [tree |-> tree, data |-> [i \in Files(tree) |-> Disk0[i]]]

Init ==
    /\ fs \in {Filled([d \in Places |->
                          IF d = input_directory THEN i
                          ELSE IF d = output_directory THEN o
                          ELSE ElsewhereDir]) :
                  <<i, o>> \in Scenarios}
    /\ fs0 = fs
    /\ listing = <<>>
    /\ idx = 0
    /\ pc = "start"
    /\ content = <<>>
    /\ transformed = <<>>
    /\ console = <<>>
    /\ error = "none"

(***************************************************************************)
(* process_directory, lines 23 to 32, and transform_ron_file, lines 4 to    *)
(* 21, called from its loop.  An exception is caught nowhere: it ends the   *)
(* program (pc = "failed").  error holds the exception's class; "OSError"   *)
(* stands for a failure that the file system of the model does not          *)
(* determine (no permission, a path that cannot be examined, read-only or   *)
(* full medium, I/O error), which every call of the operating system may    *)
(* meet.                                                                    *)
(***************************************************************************)
\* line 24: os.path.exists finds the output path
OutputDirExists ==
    /\ pc = "start"
    /\ path_exists(output_directory)
    /\ pc' = "listdir"
    /\ UNCHANGED <<fs, fs0, listing, idx, content, transformed, console, error>>

\* lines 24 and 25: os.makedirs(output_dir)
MakeDirs ==
    /\ pc = "start"
    /\ ~path_exists(output_directory)
    /\ fs' = [fs EXCEPT !.tree[output_directory] = EmptyDir]
    /\ pc' = "listdir"
    /\ UNCHANGED <<fs0, listing, idx, content, transformed, console, error>>

\* lines 24 and 25: os.makedirs raises: no permission or a read-only medium
\* where the path is absent; where it is present, os.path.exists returns
\* False for a path that it may not examine and os.makedirs then raises
MakeDirsFails ==
    /\ pc = "start"
    /\ pc' = "failed"
    /\ error' = "OSError"
    /\ UNCHANGED <<fs, fs0, listing, idx, content, transformed, console>>

\* the orders in which os.listdir may return the names of S
Orders(S) ==
    {p \in [1..Cardinality(S) -> S] :
        \A i, j \in 1..Cardinality(S) : p[i] = p[j] => i = j}

\* a mutant of ListDir: a missing directory lists as an empty one
ListDirMissingIsEmpty ==
    /\ pc = "listdir"
    /\ listing' \in Orders(DOMAIN fs.tree[input_directory].entries)
    /\ idx' = 1
    /\ pc' = "loop"
    /\ UNCHANGED <<fs, fs0, content, transformed, console, error>>

\* line 27: os.listdir(input_dir), in an order the file system chooses
ListDir ==
    /\ pc = "listdir"
    /\ path_isdir(input_directory)
    /\ listing' \in Orders(DOMAIN fs.tree[input_directory].entries)
    /\ idx' = 1
    /\ pc' = "loop"
    /\ UNCHANGED <<fs, fs0, content, transformed, console, error>>

\* line 27: the input path does not exist, os.listdir raises
\* FileNotFoundError
ListDirFails ==
    /\ pc = "listdir"
    /\ ~path_exists(input_directory)
    /\ pc' = "failed"
    /\ error' = "FileNotFoundError"
    /\ UNCHANGED <<fs, fs0, listing, idx, content, transformed, console>>

\* line 27: the input path exists and is no directory, os.listdir raises
\* NotADirectoryError
ListDirNotADirectory ==
    /\ pc = "listdir"
    /\ path_exists(input_directory)
    /\ ~path_isdir(input_directory)
    /\ pc' = "failed"
    /\ error' = "NotADirectoryError"
    /\ UNCHANGED <<fs, fs0, listing, idx, content, transformed, console>>

\* line 27: os.listdir raises another OSError (PermissionError for a path
\* the user may not read or reach)
ListDirDenied ==
    /\ pc = "listdir"
    /\ pc' = "failed"
    /\ error' = "OSError"
    /\ UNCHANGED <<fs, fs0, listing, idx, content, transformed, console>>

\* a mutant of LoopSkip: the print of line 32 stands outside the if
LoopSkipPrinting ==
    /\ pc = "loop"
    /\ idx <= Len(listing)
    /\ ~is_ron(listing[idx])
    /\ console' = console \o Printed(LineTransformed(listing[idx]))
    /\ idx' = idx + 1
    /\ UNCHANGED <<fs, fs0, listing, pc, content, transformed, error>>

\* lines 27 and 28: the next filename does not end with '.ron'
LoopSkip ==
    /\ pc = "loop"
    /\ idx <= Len(listing)
    /\ ~is_ron(listing[idx])
    /\ idx' = idx + 1
    /\ UNCHANGED <<fs, fs0, listing, pc, content, transformed, console, error>>

\* lines 27 to 31: the next filename ends with '.ron', transform_ron_file
\* is called
LoopTake ==
    /\ pc = "loop"
    /\ idx <= Len(listing)
    /\ is_ron(listing[idx])
    /\ pc' = "read"
    /\ UNCHANGED <<fs, fs0, listing, idx, content, transformed, console, error>>

\* line 27: the list is exhausted, process_directory returns
LoopEnd ==
    /\ pc = "loop"
    /\ idx > Len(listing)
    /\ pc' = "complete"
    /\ UNCHANGED <<fs, fs0, listing, idx, content, transformed, console, error>>

\* the path transform_ron_file reads, line 29
input_path(filename) == path_join(input_directory, filename)

\* a mutant of output_path: the input directory once more
output_path_in_place(filename) == path_join(input_directory, filename)

\* a mutant of output_path: one output file for every input
output_path_fixed(filename) == path_join(output_directory, NameA)

\* the path transform_ron_file writes, line 30
output_path(filename) == path_join(output_directory, filename)

\* lines 5 and 6: open(input_file, 'r') and f.read(); open follows a
\* symbolic link
ReadInput ==
    /\ pc = "read"
    /\ OpenRaises(fs, input_path(listing[idx]), "r") = "none"
    /\ Decodable(BytesAt(fs, input_path(listing[idx])))
    /\ content' = ReadText(BytesAt(fs, input_path(listing[idx])))
    /\ pc' = "sub"
    /\ UNCHANGED <<fs, fs0, listing, idx, transformed, console, error>>

\* line 5: open raises for what the path leads to: IsADirectoryError for a
\* directory, FileNotFoundError for a symbolic link to nothing,
\* NotADirectoryError for a symbolic link into a path that is no directory
OpenInputRaises ==
    /\ pc = "read"
    /\ OpenRaises(fs, input_path(listing[idx]), "r") # "none"
    /\ pc' = "failed"
    /\ error' = OpenRaises(fs, input_path(listing[idx]), "r")
    /\ UNCHANGED <<fs, fs0, listing, idx, content, transformed, console>>

\* line 6: the file holds bytes that do not decode, f.read() raises
\* UnicodeDecodeError (a ValueError, no OSError)
ReadDecodeFails ==
    /\ pc = "read"
    /\ OpenRaises(fs, input_path(listing[idx]), "r") = "none"
    /\ ~Decodable(BytesAt(fs, input_path(listing[idx])))
    /\ pc' = "failed"
    /\ error' = "UnicodeDecodeError"
    /\ UNCHANGED <<fs, fs0, listing, idx, content, transformed, console>>

\* a mutant of ReadInputFails: the error is raised and the loop goes on with
\* the next file
ReadInputFailsContinues ==
    /\ pc = "read"
    /\ pc' = "loop"
    /\ idx' = idx + 1
    /\ error' = "OSError"
    /\ UNCHANGED <<fs, fs0, listing, content, transformed, console>>

\* lines 5 and 6: open raises another OSError (PermissionError for a file
\* or a directory that the user may not read or reach) or read raises one
\* (an I/O error of the medium)
ReadInputFails ==
    /\ pc = "read"
    /\ pc' = "failed"
    /\ error' = "OSError"
    /\ UNCHANGED <<fs, fs0, listing, idx, content, transformed, console>>

\* line 18: transformed_content = re.sub(pattern, replace_node, content)
Substitute ==
    /\ pc = "sub"
    /\ transformed' = re_sub(content)
    /\ pc' = "write"
    /\ UNCHANGED <<fs, fs0, listing, idx, content, console, error>>

\* a mutant of WriteOutput: content is written, not transformed_content
WriteOutputUntransformed ==
    /\ pc = "write"
    /\ OpenRaises(fs, output_path(listing[idx]), "w") = "none"
    /\ fs' = FileWritten(fs, output_path(listing[idx]), Encode(content))
    /\ pc' = "print"
    /\ UNCHANGED <<fs0, listing, idx, content, transformed, console, error>>

\* lines 20 and 21: open(output_file, 'w'), f.write and the close
WriteOutput ==
    /\ pc = "write"
    /\ OpenRaises(fs, output_path(listing[idx]), "w") = "none"
    /\ fs' = FileWritten(fs, output_path(listing[idx]), Encode(transformed))
    /\ pc' = "print"
    /\ UNCHANGED <<fs0, listing, idx, content, transformed, console, error>>

\* line 20: open(output_file, 'w') raises for what the path leads to:
\* NotADirectoryError where the output path is no directory (line 24 found
\* that it exists and made none), IsADirectoryError for a directory
OpenOutputRaises ==
    /\ pc = "write"
    /\ OpenRaises(fs, output_path(listing[idx]), "w") # "none"
    /\ pc' = "failed"
    /\ error' = OpenRaises(fs, output_path(listing[idx]), "w")
    /\ UNCHANGED <<fs, fs0, listing, idx, content, transformed, console>>

\* line 20: open(output_file, 'w') raises another OSError, the file system
\* is as it was
OpenOutputFails ==
    /\ pc = "write"
    /\ pc' = "failed"
    /\ error' = "OSError"
    /\ UNCHANGED <<fs, fs0, listing, idx, content, transformed, console>>

\* lines 20 and 21: the file is opened (and so emptied) and the write or the
\* flush raises (disk full): the file holds some proper prefix of the bytes
\* of the text, which may end inside the encoding of a character
WriteOutputFails ==
    /\ pc = "write"
    /\ OpenRaises(fs, output_path(listing[idx]), "w") = "none"
    /\ \E bytes \in {Encode(transformed)} :
          \E n \in 0..(Len(bytes) - 1) :
              fs' = FileWritten(fs, output_path(listing[idx]),
                                SubSeq(bytes, 1, n))
    /\ pc' = "failed"
    /\ error' = "OSError"
    /\ UNCHANGED <<fs0, listing, idx, content, transformed, console>>

\* line 32: print(f"Transformed {filename}"), and the loop moves on
PrintTransformed ==
    /\ pc = "print"
    /\ console' = console \o Printed(LineTransformed(listing[idx]))
    /\ idx' = idx + 1
    /\ pc' = "loop"
    /\ UNCHANGED <<fs, fs0, listing, content, transformed, error>>

\* line 32: print raises (standard output cannot be written) when none,
\* part or all of the text has reached standard output, the newline has not
PrintTransformedFails ==
    /\ pc = "print"
    /\ \E k \in 0..Len(LineTransformed(listing[idx])) :
          console' = console \o SubSeq(LineTransformed(listing[idx]), 1, k)
    /\ pc' = "failed"
    /\ error' = "OSError"
    /\ UNCHANGED <<fs, fs0, listing, idx, content, transformed>>

\* line 39: print raises (standard output cannot be written) when none,
\* part or all of the text has reached standard output, the newline has not
PrintCompleteFails ==
    /\ pc = "complete"
    /\ \E k \in 0..Len(LineComplete) :
          console' = console \o SubSeq(LineComplete, 1, k)
    /\ pc' = "failed"
    /\ error' = "OSError"
    /\ UNCHANGED <<fs, fs0, listing, idx, content, transformed>>

\* line 39: print("Transformation complete."), the program ends
PrintComplete ==
    /\ pc = "complete"
    /\ console' = console \o Printed(LineComplete)
    /\ pc' = "done"
    /\ UNCHANGED <<fs, fs0, listing, idx, content, transformed, error>>

Next ==
    \/ OutputDirExists
    \/ MakeDirs
    \/ MakeDirsFails
    \/ ListDir
    \/ ListDirFails
    \/ ListDirNotADirectory
    \/ ListDirDenied
    \/ LoopSkip
    \/ LoopTake
    \/ LoopEnd
    \/ ReadInput
    \/ OpenInputRaises
    \/ ReadDecodeFails
    \/ ReadInputFails
    \/ Substitute
    \/ WriteOutput
    \/ OpenOutputRaises
    \/ OpenOutputFails
    \/ WriteOutputFails
    \/ PrintTransformed
    \/ PrintTransformedFails
    \/ PrintComplete
    \/ PrintCompleteFails

Spec == Init /\ [][Next]_vars

(***************************************************************************)
(* The run in which no operation fails for a reason outside the file        *)
(* system of the model: what is left raises only for an input or output     *)
(* path that is missing or no directory, for a directory or a link to       *)
(* nothing under a .ron name and for a file that does not decode; standard  *)
(* output can be written.  The program is one sequential process that       *)
(* takes its next step whenever it has one.                                 *)
(***************************************************************************)
NextLive ==
    \/ OutputDirExists
    \/ MakeDirs
    \/ ListDir
    \/ ListDirFails
    \/ ListDirNotADirectory
    \/ LoopSkip
    \/ LoopTake
    \/ LoopEnd
    \/ ReadInput
    \/ OpenInputRaises
    \/ ReadDecodeFails
    \/ Substitute
    \/ WriteOutput
    \/ OpenOutputRaises
    \/ PrintTransformed
    \/ PrintComplete

SpecLive == Init /\ [][NextLive]_vars /\ WF_vars(NextLive)

(***************************************************************************)
(* The transform alone, on every text of Texts.                             *)
(***************************************************************************)
InitT ==
    /\ fs = [tree |-> [d \in Places |-> EmptyDir], data |-> <<>>]
    /\ fs0 = fs
    /\ listing = <<>>
    /\ idx = 0
    /\ pc = "sub"
    /\ content \in Texts
    /\ transformed = <<>>
    /\ console = <<>>
    /\ error = "none"

NextT == Substitute

SpecT == InitT /\ [][NextT]_vars

(***************************************************************************)
(* Properties of the transform (SpecT).                                     *)
(***************************************************************************)
RECURSIVE SpansFrom(_, _)
\* the leftmost non-overlapping matches from position i on, in order (what
\* re.finditer yields)
SpansFrom(s, i) ==
    LET m == search(s, i)
    IN  IF ~m.ok THEN <<>> ELSE <<m>> \o SpansFrom(s, m.end)

Spans(s) == SpansFrom(s, 1)

RECURSIVE Growth(_, _)
\* by how much the replacements of the first k matches lengthen the text
Growth(ms, k) ==
    IF k = 0 THEN 0
    ELSE Growth(ms, k - 1) + Len(replace_node(ms[k])) + ms[k].start - ms[k].end

\* the text outside the matches: gap k lies after match k (gap 0 before the
\* first match) and ends before match k + 1 (the last gap at the end)
GapFirst(ms, k) == IF k = 0 THEN 1 ELSE ms[k].end
GapLast(s, ms, k) == IF k = Len(ms) THEN Len(s) ELSE ms[k + 1].start - 1

\* no position of the text starts a match of the pattern
NoFragment(s) == \A j \in 1..Len(s) : ~pattern(s, j).ok

\* C1: the output equals the input everywhere outside the spans of the
\* leftmost non-overlapping matches: every character before, between and
\* after the matches stands in the output, in order, displaced only by the
\* growth of the replacements before it, and the output holds nothing else
\* but the replacements; a text no position of which starts a match is
\* returned unchanged.
C1_OutsideSpansVerbatim ==
    pc = "write" =>
        LET ms == Spans(content)
        IN  /\ \A k \in 0..Len(ms) :
                   \A g \in {Growth(ms, k)} :
                       \A j \in GapFirst(ms, k)..GapLast(content, ms, k) :
                           /\ j + g \in 1..Len(transformed)
                           /\ transformed[j + g] = content[j]
            /\ Len(transformed) = Len(content) + Growth(ms, Len(ms))
            /\ NoFragment(content) => transformed = content

\* two matches with text between them and after them
C1_Witness ==
    /\ pc = "write"
    /\ LET ms == Spans(content)
       IN  /\ Len(ms) = 2
           /\ ms[1].end < ms[2].start
           /\ ms[2].end <= Len(content)
    /\ transformed # content

\* the replacement text of the spec, section 4.1, for three captures
C2_Template(name, ty, inner) ==
    <<"(", "\n", " ", " ", " ", " ", " ", " ", " ", " ", " ", " ", " ", " ", "n", "a", "m", "e", ":", " ", "\"">>
    \o name \o
    <<"\"", ",", "\n", " ", " ", " ", " ", " ", " ", " ", " ", " ", " ", " ", " ", "i", "n", "n", "e", "r", ":", " ", "{", "\n", " ", " ", " ", " ", " ", " ", " ", " ", " ", " ", " ", " ", " ", " ", " ", " ", "\"">>
    \o ty \o
    <<"\"", ":", " ">>
    \o inner \o
    <<"\n", " ", " ", " ", " ", " ", " ", " ", " ", " ", " ", " ", " ", "}">>

ExampleInput == FragCanon

ExampleOutput ==
    <<"(", "\n", " ", " ", " ", " ", " ", " ", " ", " ", " ", " ", " ", " ", "n", "a", "m", "e", ":", " ", "\"", "A", "\"", ",", "\n", " ", " ", " ", " ", " ", " ", " ", " ", " ", " ", " ", " ", "i", "n", "n", "e", "r", ":", " ", "{", "\n", " ", " ", " ", " ", " ", " ", " ", " ", " ", " ", " ", " ", " ", " ", " ", " ", "\"", "T", "\"", ":", " ", "(", "x", ":", " ", "1", ")", "\n", " ", " ", " ", " ", " ", " ", " ", " ", " ", " ", " ", " ", "}", ")">>

\* C2: every matched fragment is replaced by exactly "(", newline,
\* name: "<name>", newline, inner: {, newline, "<ty>": <inner>, newline, }
\* with the template's indentation, <inner> being the captured text with its
\* parentheses; the example (name: "A", ty: "T", inner: (x: 1)) becomes that
\* text for A, T and (x: 1), followed by the outer closing parenthesis.
C2_ReplacementText ==
    pc = "write" =>
        LET ms == Spans(content)
        IN  /\ \A k \in 1..Len(ms) :
                   LET r == C2_Template(ms[k].name, ms[k].ty, ms[k].inner)
                       at == ms[k].start + Growth(ms, k - 1)
                   IN  /\ ms[k].inner[1] = "("
                       /\ ms[k].inner[Len(ms[k].inner)] = ")"
                       /\ SubSeq(transformed, at, at + Len(r) - 1) = r
            /\ content = ExampleInput => transformed = ExampleOutput

C2_Witness ==
    /\ pc = "write"
    /\ content = ExampleInput
    /\ Len(Spans(content)) = 1

NestedInput == FragNested

NestedOutput ==
    <<"(", "\n", " ", " ", " ", " ", " ", " ", " ", " ", " ", " ", " ", " ", "n", "a", "m", "e", ":", " ", "\"", "A", "\"", ",", "\n", " ", " ", " ", " ", " ", " ", " ", " ", " ", " ", " ", " ", "i", "n", "n", "e", "r", ":", " ", "{", "\n", " ", " ", " ", " ", " ", " ", " ", " ", " ", " ", " ", " ", " ", " ", " ", " ", "\"", "T", "\"", ":", " ", "(", "a", ":", " ", "(", "b", ":", " ", "1", ")", "\n", " ", " ", " ", " ", " ", " ", " ", " ", " ", " ", " ", " ", "}", ")", ")">>

\* the number of closing parentheses of a text
Closers(s) == Cardinality({j \in 1..Len(s) : s[j] = ")"})

\* C3: the inner capture of every match ends at the first ")" after inner's
\* opening parenthesis (it is not balanced), every closing parenthesis after
\* it lies outside the match and is copied to the output after the
\* replacement; inner: (a: (b: 1)) is captured as (a: (b: 1) and the two
\* parentheses after it follow the replacement.
C3_InnerEndsAtFirstClose ==
    pc = "write" =>
        LET ms == Spans(content)
        IN  /\ \A k \in 1..Len(ms) :
                   LET m == ms[k]
                   IN  /\ content[m.innerAt] = "("
                       /\ content[m.end - 1] = ")"
                       /\ m.inner = SubSeq(content, m.innerAt, m.end - 1)
                       /\ \A j \in (m.innerAt + 1)..(m.end - 2) : content[j] # ")"
                       /\ SubSeq(transformed, m.end + Growth(ms, k),
                                 GapLast(content, ms, k) + Growth(ms, k))
                          = SubSeq(content, m.end, GapLast(content, ms, k))
            /\ Closers(transformed) = Closers(content)
            /\ content = NestedInput => transformed = NestedOutput

C3_Witness ==
    /\ pc = "write"
    /\ content = NestedInput
    /\ Len(Spans(content)) = 1
    /\ Spans(content)[1].end = Len(content) - 1

(***************************************************************************)
(* Properties of the batch (Spec, SpecLive).                                *)
(***************************************************************************)
In0 == fs0.tree[input_directory].entries
Out0 == fs0.tree[output_directory].entries
Out == fs.tree[output_directory].entries

\* the names of the input directory that end with .ron
RonNames == {n \in DOMAIN In0 : endswith(n, DotRon)}

\* the input and the output path of a filename, as the spec has them: the
\* filename under the input and under the output directory
InPath(n) == path_join(input_directory, n)
OutPath(n) == path_join(output_directory, n)

\* the bytes of the transform of the text read from a file, for the bytes
\* the files hold before the run and for their transforms
TransformOf ==
    LET T(b) == Encode(re_sub(ReadText(b)))
        B0 == {b \in {Disk0[i] : i \in 1..Len(Disk0)} : Decodable(b)}
    IN  [b \in B0 \cup {T(x) : x \in B0} |-> T(b)]

\* the bytes the batch is to write for a file that holds the bytes b
Transform(b) ==
    IF b \in DOMAIN TransformOf THEN TransformOf[b]
    ELSE Encode(re_sub(ReadText(b)))

\* open can read a text from the path
Readable(f, path) ==
    /\ OpenRaises(f, path, "r") = "none"
    /\ \/ BytesAt(f, path) \in DOMAIN TransformOf
       \/ Decodable(BytesAt(f, path))

\* what a path shows: nothing, a directory, or a file or a symbolic link
\* with the bytes read through it
Shows(kind, text, target) == [kind |-> kind, text |-> text, target |-> target]

At(f, path) ==
    IF ~Has(f, path) THEN Shows("absent", <<>>, NoPath)
    ELSE LET e == f.tree[path.dir].entries[path.name]
         IN  IF e.kind = "dir" THEN Shows("dir", <<>>, NoPath)
             ELSE IF e.kind = "file" THEN Shows("file", f.data[e.ino], NoPath)
             ELSE IF OpenRaises(f, path, "r") # "none"
                 THEN Shows("link", <<OpenRaises(f, path, "r")>>, e.target)
             ELSE Shows(e.kind, BytesAt(f, path), e.target)

\* the file a path leads to: the number of the file open reaches from it
\* or, where there is none, the place where open would create one
Lead(f, path) ==
    LET p == Resolve(f, path)
    IN  IF Has(f, p) /\ f.tree[p.dir].entries[p.name].kind = "file"
        THEN [ino |-> f.tree[p.dir].entries[p.name].ino, at |-> NoPath]
        ELSE [ino |-> 0, at |-> p]

\* the paths of the entries of the two directories before the run, and the
\* output paths of the .ron names
Paths0 ==
    UNION {{path_join(d, n) : n \in DOMAIN fs0.tree[d].entries} : d \in Dirs}
    \cup {OutPath(n) : n \in RonNames}

\* the output path of every .ron name leads to a file of its own: where it
\* is a symbolic link, the target lies outside the two directories, and no
\* other path of the two directories leads to the same file (through a
\* symbolic link or a hard link)
NoAlias ==
    \A leads \in {[q \in Paths0 |-> Lead(fs0, q)]} :
        \A n \in RonNames :
            /\ \A p \in {Resolve(fs0, OutPath(n))} :
                   p = OutPath(n) \/ p.dir \notin Dirs
            /\ \A q \in Paths0 \ {OutPath(n)} : leads[q] # leads[OutPath(n)]

\* the bytes of the file that open reaches from name n of the output
\* directory
OutText(n) == BytesAt(fs, OutPath(n))

\* the file open reaches from n of the output directory holds the transform
\* of what the input entry n held before the run
HoldsExpected(n) ==
    /\ Readable(fs0, InPath(n))
    /\ OpenRaises(fs, OutPath(n), "r") = "none"
    /\ OutText(n) = Transform(BytesAt(fs0, InPath(n)))

\* a path shows what it showed before the run (for a path that held a
\* file before the run: it holds the same file, with the same bytes)
Kept(path) ==
    IF Has(fs0, path) /\ fs0.tree[path.dir].entries[path.name].kind = "file"
    THEN /\ Has(fs, path)
         /\ fs.tree[path.dir].entries[path.name]
                = fs0.tree[path.dir].entries[path.name]
         /\ fs.data[fs0.tree[path.dir].entries[path.name].ino]
                = fs0.data[fs0.tree[path.dir].entries[path.name].ino]
    ELSE At(fs, path) = At(fs0, path)

\* the output directory shows under n what it showed before the run
Untouched(n) == Kept(OutPath(n))

\* C4: after process_directory has completed without error on an output
\* directory that was empty or absent, the output directory exists and holds
\* exactly one file per input entry whose name ends with .ron, under the
\* same name, holding the transform of that entry's text (which is the text
\* it held before the run, if it could be read then), and no file for any
\* other entry.
C4_BatchOutput ==
    (pc \in {"complete", "done"}
        /\ fs0.tree[output_directory] \in {NoDir, EmptyDir}) =>
        /\ fs.tree[output_directory].exists
        /\ fs.tree[output_directory].isdir
        /\ DOMAIN Out = RonNames
        /\ \A n \in RonNames :
               /\ Out[n].kind = "file"
               /\ \A m \in RonNames \ {n} : Out[m].ino # Out[n].ino
               /\ Readable(fs, InPath(n))
               /\ fs.data[Out[n].ino] = Transform(BytesAt(fs, InPath(n)))
               /\ OpenRaises(fs0, InPath(n), "r") = "none" =>
                      BytesAt(fs, InPath(n)) = BytesAt(fs0, InPath(n))

\* the spec's scenario: a.ron, b.ron and c.txt
C4_Witness ==
    /\ pc = "done"
    /\ ~fs0.tree[output_directory].exists
    /\ DOMAIN In0 = {NameA, NameB, NameC}
    /\ DOMAIN Out = {NameA, NameB}
    /\ In0[NameA].kind = "file"
    /\ fs.data[Out[NameA].ino] # fs0.data[In0[NameA].ino]

\* the entry the loop is at
Current == In0[listing[idx]]
InTransform == pc \in {"read", "sub", "write", "print"}

\* C5 as stated: an entry that is a file without the .ron suffix, a
\* subdirectory or a symbolic link is skipped whatever its name, so
\* transform_ron_file only ever runs on a regular file named *.ron and no
\* error comes of a subdirectory.
C5_Original ==
    /\ InTransform => (Current.kind = "file" /\ endswith(listing[idx], DotRon))
    /\ error # "IsADirectoryError"

\* C5, amended: an entry whose name does not end with .ron is skipped
\* silently whatever its kind (the step over it changes neither the file
\* system nor the console and raises nothing, and transform_ron_file never
\* runs on it), while an entry whose name ends with .ron is passed to
\* transform_ron_file whatever its kind, where open raises an OSError for
\* a subdirectory (IsADirectoryError, unless another failure comes first)
\* and a symbolic link is read through.
C5_NonRonSkipped ==
    [][/\ (pc = "loop" /\ idx <= Len(listing)
              /\ ~endswith(listing[idx], DotRon)) =>
            /\ pc' = "loop" /\ idx' = idx + 1
            /\ fs' = fs /\ console' = console /\ error' = "none"
       /\ (pc = "loop" /\ idx <= Len(listing)
              /\ endswith(listing[idx], DotRon)) =>
            /\ pc' = "read" /\ idx' = idx
       /\ (pc = "read" /\ Current.kind = "dir") =>
            /\ pc' = "failed"
            /\ error' \in {"IsADirectoryError", "OSError"}
       /\ (pc = "read" /\ Current.kind = "link" /\ pc' # "failed") =>
            content' = ReadText(BytesAt(fs, InPath(listing[idx])))
       /\ InTransform' => endswith(listing'[idx'], DotRon)
      ]_vars

\* a subdirectory and a symbolic link without the suffix have been skipped
C5_Witness ==
    /\ pc = "done"
    /\ \E i, j \in 1..Len(listing) :
          /\ ~endswith(listing[i], DotRon) /\ In0[listing[i]].kind = "dir"
          /\ ~endswith(listing[j], DotRon) /\ In0[listing[j]].kind = "link"
    /\ \A n \in DOMAIN In0 : ~endswith(n, DotRon) => n \notin DOMAIN Out

\* the exceptions of an I/O failure (OSError and its subclasses)
IOErrors ==
    {"OSError", "FileNotFoundError", "IsADirectoryError", "NotADirectoryError"}

\* C6: with no input directory the run fails with an I/O error; all it may
\* have done by then is create the empty output directory: no file is
\* written and no line is printed.
C6_MissingInputDir ==
    ~fs0.tree[input_directory].exists =>
        /\ pc \in {"start", "listdir", "failed"}
        /\ pc = "failed" <=> error \in IOErrors
        /\ pc # "failed" => (error = "none" /\ ENABLED Next)
        /\ console = <<>>
        /\ fs.data = fs0.data
        /\ \A d \in Places \ {output_directory} : fs.tree[d] = fs0.tree[d]
        /\ \/ fs.tree[output_directory] = fs0.tree[output_directory]
           \/ /\ ~fs0.tree[output_directory].exists
              /\ fs.tree[output_directory] = EmptyDir

\* os.listdir has raised after os.makedirs created the output directory
C6_Witness ==
    /\ ~fs0.tree[input_directory].exists
    /\ ~fs0.tree[output_directory].exists
    /\ fs.tree[output_directory] = EmptyDir
    /\ pc = "failed"
    /\ error = "FileNotFoundError"

\* s is a proper prefix of t
ProperPrefix(s, t) == Len(s) < Len(t) /\ s = SubSeq(t, 1, Len(s))

\* the characters w stand somewhere in s, one after the other
Occurs(w, s) ==
    \E i \in 1..(Len(s) - Len(w) + 1) :
        s[i] = w[1] /\ SubSeq(s, i, i + Len(w) - 1) = w

\* the .ron names among the first k names of the list, in the list's order
RonPrefix(k) ==
    SelectSeq(SubSeq(listing, 1, k), LAMBDA n : endswith(n, DotRon))

RECURSIVE LinesOf(_)
\* the "Transformed" lines of a list of names, as standard output holds them
LinesOf(names) ==
    IF names = <<>> THEN <<>>
    ELSE Printed(LineTransformed(Head(names))) \o LinesOf(Tail(names))

\* what the console holds once the loop has passed the first k names
LinesAfter(k) == LinesOf(RonPrefix(k))

\* what C7 says of the output directory after a failure: the names later
\* in the list have no output created or changed, the .ron names before
\* the failing one hold their full transform, and the failing one's output
\* is as it was, a proper prefix of its transform (empty included), or,
\* when it is the print that failed, the transform
OutputsAfterFailure ==
    /\ listing = <<>> =>
           /\ fs.data = fs0.data
           /\ \A n \in DOMAIN Out \cup DOMAIN Out0 : Untouched(n)
    /\ \A j \in 1..Len(listing) :
           LET n == listing[j]
           IN  IF j < idx /\ endswith(n, DotRon) THEN HoldsExpected(n)
               ELSE IF j = idx
                   THEN \/ Untouched(n)
                        \/ /\ Readable(fs0, InPath(n))
                           /\ OpenRaises(fs, OutPath(n), "r") = "none"
                           /\ \/ ProperPrefix(OutText(n),
                                              Transform(BytesAt(fs0, InPath(n))))
                              \/ OutText(n) = Transform(BytesAt(fs0, InPath(n)))
               ELSE Untouched(n)

\* the failure came inside process_directory (of a step of the final print
\* otherwise)
FailedInBatch == idx <= Len(listing)

\* after a failure inside process_directory the console holds the lines of
\* the files before the failing one and, when it is the print of line 32
\* that failed, a part of the failing file's line; the completion text
\* stands nowhere in it
ConsoleAfterFailure ==
    /\ idx = 0 => console = <<>>
    /\ idx > 0 =>
           \E before \in {LinesAfter(idx - 1)} :
               /\ Len(console) - Len(before)
                      \in 0..Len(LineTransformed(listing[idx]))
               /\ console = before
                      \o SubSeq(LineTransformed(listing[idx]), 1,
                                Len(console) - Len(before))
    /\ ~Occurs(LineComplete, console)

\* C7 as stated: after the first failure nothing runs, the completion line
\* is absent, and the outputs are as OutputsAfterFailure says, whatever the
\* two directories hold.
C7_Original ==
    error # "none" =>
        /\ pc = "failed"
        /\ ~ENABLED Next
        /\ FailedInBatch => ConsoleAfterFailure
        /\ OutputsAfterFailure

\* C7, amended: the first failure ends the program at once: nothing runs
\* after it, and when it came during the batch no part of the completion
\* line is printed after it (when it is the final print that failed, the
\* line is not printed whole); and when the output path of every .ron name
\* leads to a file of its own, the files later in the list have no output
\* created or changed, the .ron files before the failing one keep their
\* fully transformed output and only the failing file's output may be
\* partial or empty.
C7_FailureAborts ==
    error # "none" =>
        /\ pc = "failed"
        /\ ~ENABLED Next
        /\ FailedInBatch => ConsoleAfterFailure
        /\ ~FailedInBatch =>
               \E before \in {LinesAfter(Len(listing))} :
                   /\ Len(console) - Len(before) \in 0..Len(LineComplete)
                   /\ console = before
                          \o SubSeq(LineComplete, 1, Len(console) - Len(before))
        /\ OutputsAfterFailure \/ ~NoAlias

\* the write of the second of three .ron files failed part-way
C7_Witness ==
    /\ pc = "failed"
    /\ NoAlias
    /\ Len(listing) = 3
    /\ \A j \in 1..3 : endswith(listing[j], DotRon)
    /\ idx = 2
    /\ HoldsExpected(listing[1])
    /\ Readable(fs0, InPath(listing[2]))
    /\ OpenRaises(fs, OutPath(listing[2]), "r") = "none"
    /\ OutText(listing[2]) # <<>>
    /\ ProperPrefix(OutText(listing[2]),
                    Transform(BytesAt(fs0, InPath(listing[2]))))
    /\ listing[3] \notin DOMAIN Out

C8_Sequential ==
    /\ pc \in {"start", "listdir"} => console = <<>>
    /\ pc \in {"loop", "complete"} => console = LinesAfter(idx - 1)
    /\ InTransform =>
          /\ idx \in 1..Len(listing)
          /\ console = LinesAfter(idx - 1)
          /\ pc = "print" => OutText(listing[idx]) = Encode(transformed)
          /\ \/ /\ \A j \in (idx + 1)..Len(listing) : Untouched(listing[j])
                /\ pc \in {"read", "sub", "write"} => Untouched(listing[idx])
                /\ pc = "print" => HoldsExpected(listing[idx])
             \/ ~NoAlias
    /\ (InTransform \/ pc \in {"loop", "complete", "done"}) =>
          \/ \A j \in 1..(idx - 1) :
                 endswith(listing[j], DotRon) => HoldsExpected(listing[j])
          \/ ~NoAlias
    /\ pc \in {"complete", "done"} => idx = Len(listing) + 1
    /\ pc = "done" =>
          console = LinesAfter(Len(listing)) \o Printed(LineComplete)

\* C8: the batch is sequential and, absent I/O failures, terminates: a file
\* is read only when every .ron file before it in the list has its output
\* written and its line printed (and, the output path of every .ron name
\* leading to a file of its own, no later file's output is touched);
\* "Transformed <filename>" is printed once per processed file, after its
\* output is written; "Transformation complete." is printed once, last,
\* after which the program has ended.
C8_SequentialAndTerminates ==
    /\ []C8_Sequential
    /\ <>(pc = "done" \/ error # "none")
    /\ [][pc # "done"]_vars

\* two files processed, the completion line printed
C8_Witness ==
    /\ pc = "done"
    /\ Len(listing) = 3
    /\ console = LinesOf(<<listing[1], listing[3]>>) \o Printed(LineComplete)

RECURSIVE RunFrom(_, _, _)
\* the loop of process_directory, lines 27 to 32, as a function: the file
\* system a run leaves when it goes through list o from its position i on,
\* and whether it went through all of it with no exception of open or read
RunFrom(f, o, i) ==
    IF i > Len(o) THEN [ok |-> TRUE, fs |-> f]
    ELSE IF ~is_ron(o[i]) THEN RunFrom(f, o, i + 1)
    ELSE IF ~Readable(f, input_path(o[i]))
            \/ OpenRaises(f, output_path(o[i]), "w") # "none"
        THEN [ok |-> FALSE, fs |-> f]
    ELSE RunFrom(FileWritten(f, output_path(o[i]),
                             Transform(BytesAt(f, input_path(o[i])))),
                 o, i + 1)

\* lines 24 and 25: the file system once the output directory exists
WithOutputDir(f) ==
    IF f.tree[output_directory].exists THEN f
    ELSE [f EXCEPT !.tree[output_directory] = EmptyDir]

\* the file system a run through order o leaves is the one this run left,
\* for every order o of the same entries whose run completes
SameForEveryOrder ==
    /\ \A o \in Orders(DOMAIN In0) :
           \A r \in {RunFrom(WithOutputDir(fs0), o, 1)} : r.ok => r.fs = fs
    /\ \E o \in Orders(RonNames) :
           console = LinesOf(o) \o Printed(LineComplete)

\* C9 as stated: the order of os.listdir does not matter to the result,
\* whatever the two directories hold.
C9_Original == pc = "done" => SameForEveryOrder

\* C9, amended: when the output path of every .ron name leads to a file of
\* its own, the order of os.listdir does not matter to the result: the run
\* through any other order of the same entries completes as well and leaves
\* the same file system, and the console holds the same lines, in the
\* order of the list.
C9_OrderInsensitive ==
    (pc = "done" /\ NoAlias) =>
        /\ SameForEveryOrder
        /\ \A o \in Orders(DOMAIN In0) : RunFrom(WithOutputDir(fs0), o, 1).ok

\* three .ron files listed against the alphabet, over stale output
C9_Witness ==
    /\ pc = "done"
    /\ NoAlias
    /\ Len(listing) = 3
    /\ listing = <<NameE, NameB, NameA>>
    /\ Out0 # <<>>
    /\ ~Untouched(NameA)
    /\ ~Untouched(NameB)

\* the .ron names transform_ron_file has been called on so far
Processed ==
    {listing[j] : j \in {k \in 1..Len(listing) :
                            /\ endswith(listing[k], DotRon)
                            /\ \/ k < idx
                               \/ k = idx /\ pc \in {"read", "sub", "write",
                                                     "print", "failed"}}}

\* the input directory holds the entries it held at the start and each
\* shows what it showed then, an entry of the output directory under a name
\* that is not the name of a processed .ron input shows what it showed, and
\* no entry is removed
InputAndOthersKept ==
    /\ input_directory # output_directory
    /\ fs.tree[input_directory] = fs0.tree[input_directory]
    /\ \A n \in DOMAIN In0 : Kept(InPath(n))
    /\ \A n \in (DOMAIN Out \cup DOMAIN Out0) \ Processed : Untouched(n)
    /\ \A n \in DOMAIN Out0 : n \in DOMAIN Out

\* the files created or overwritten: the numbers of the files that are new
\* or hold other bytes than at the start
Written ==
    IF fs.data = fs0.data THEN {}
    ELSE {i \in DOMAIN fs.data :
             i \notin DOMAIN fs0.data \/ fs.data[i] # fs0.data[i]}

\* the paths that hold an entry they did not hold at the start
Entered ==
    {p \in UNION {{path_join(d, n) : n \in DOMAIN fs.tree[d].entries} :
                     d \in {c \in Places : fs.tree[c] # fs0.tree[c]}} :
        ~Has(fs0, p)}

\* C10 as stated: in every state, also after a failure, the input directory
\* is what it was and only output names of processed .ron inputs are
\* created or overwritten, whatever the two directories hold.
C10_Original == InputAndOthersKept

\* C10, amended: in every state, also after a failure, the only files
\* created or overwritten are those that open reaches from the output path
\* of a processed .ron input, and no entry and no file is removed or
\* replaced; so when the output path of every .ron name leads to a file of
\* its own, the input directory is what it was at the start and a file of
\* the output directory under a name that is not the name of a processed
\* .ron input keeps its content.
C10_Frame ==
    /\ Written \subseteq {Lead(fs, OutPath(n)).ino : n \in Processed}
    /\ Entered \subseteq {Resolve(fs0, OutPath(n)) : n \in Processed}
    /\ \A d \in Places :
           \/ fs.tree[d] = fs0.tree[d]
           \/ \A n \in DOMAIN fs0.tree[d].entries :
                  Has(fs, path_join(d, n))
                  /\ fs.tree[d].entries[n] = fs0.tree[d].entries[n]
    /\ DOMAIN fs0.data \subseteq DOMAIN fs.data
    /\ InputAndOthersKept \/ ~NoAlias

\* a failed run over stale output: a.ron was overwritten, c.txt was kept
\* although the input holds a c.txt
C10_Witness ==
    /\ pc = "failed"
    /\ NoAlias
    /\ Out0 # <<>>
    /\ NameC \in DOMAIN In0
    /\ NameA \in Processed
    /\ ~Untouched(NameA)
    /\ NameC \in DOMAIN Out0
    /\ Untouched(NameC)
====
